---- MODULE Spec2Model ----
(***************************************************************************)
(* Model of src/engine/parser.rs: parse(expr) scans the characters of a    *)
(* regular expression once, keeping a current sequence (seq), the finished *)
(* alternatives of the current group (seq_or) and a stack of saved         *)
(* (seq, seq_or) pairs, and returns an AST or a ParseError.                *)
(*                                                                         *)
(* The characters of expr are delivered one at a time by the iterator of   *)
(* line 113; the variable expr holds the characters delivered so far, so   *)
(* the zero-based index i of the character being read is Len(expr) before  *)
(* the step.  A state stands for every input that has expr as a prefix;    *)
(* EndOfInput is the iterator returning None.                              *)
(***************************************************************************)
EXTENDS Integers, Sequences, FiniteSets, TLC

\* Longest input the model delivers.
MaxLen == 5

\* Characters without a meaning of their own (the `_` arms of lines 57, 160).
Literals == {"a", "b"}

\* The characters of line 56, which are also the ones lines 117-159 dispatch on.
Escapable == {"\\", "(", ")", "|", "+", "*", "?"}

Alphabet == Literals \cup Escapable

(***************************************************************************)
(* enum AST (lines 12-19) as tagged tuples.                                *)
(***************************************************************************)
AST_Char(c) == <<"Char", c>>
AST_Plus(x) == <<"Plus", x>>
AST_Star(x) == <<"Star", x>>
AST_Question(x) == <<"Question", x>>
AST_Or(l, r) == <<"Or", l, r>>
AST_Seq(children) == <<"Seq", children>>

(***************************************************************************)
(* enum ParseError (lines 22-28).                                          *)
(***************************************************************************)
InvalidEscape(pos, c) == <<"InvalidEscape", pos, c>>
InvalidRightParen(pos) == <<"InvalidRightParen", pos>>
NoPrev(pos) == <<"NoPrev", pos>>
NoRightParen == <<"NoRightParen">>
Empty == <<"Empty">>

\* Result<_, ParseError> and Option<AST>.
Ok(v) == <<"Ok", v>>
Err(e) == <<"Err", e>>
Some(v) == <<"Some", v>>
None == <<"None">>

\* parse has not returned yet.
Running == <<"Running">>

IsOk(r) == r[1] = "Ok"
IsErr(r) == r[1] = "Err"
IsRunning(r) == r[1] = "Running"
IsSome(o) == o[1] = "Some"
ErrIs(r, tag) == IsErr(r) /\ r[2][1] = tag

(***************************************************************************)
(* impl Display for ParseError (lines 30-50): the text written, as the     *)
(* pieces of the format string and the values put between them.            *)
(***************************************************************************)
\* Variant: Empty has a message of its own.
Display_EmptyOwnText(e) ==
    CASE e[1] = "InvalidEscape" ->
            <<"ParseError: invalid escape: pos = ", e[2], ", char = '", e[3], "'">>
      [] e[1] = "InvalidRightParen" ->
            <<"ParseError: invalid right parenthesis: pos = ", e[2]>>
      [] e[1] = "NoPrev" ->
            <<"ParseError: no previous expression: pos = ", e[2]>>
      [] e[1] = "NoRightParen" -> <<"ParseError: no right parenthesis">>
      [] e[1] = "Empty" -> <<"ParseError: empty expression">>

Display(e) ==
    CASE e[1] = "InvalidEscape" ->
            <<"ParseError: invalid escape: pos = ", e[2], ", char = '", e[3], "'">>
      [] e[1] = "InvalidRightParen" ->
            <<"ParseError: invalid right parenthesis: pos = ", e[2]>>
      [] e[1] = "NoPrev" ->
            <<"ParseError: no previous expression: pos = ", e[2]>>
      [] e[1] = "NoRightParen" -> <<"ParseError: no right parenthesis">>
      [] e[1] = "Empty" -> <<"ParseError: no right parenthesis">>

(***************************************************************************)
(* Beside some definitions below stands a variant with one slip the code   *)
(* could have made (its name says which).  A property that is about the    *)
(* code must fail when the variant takes the definition's place.           *)
(***************************************************************************)

(***************************************************************************)
(* parse_escape (lines 54-62).                                             *)
(***************************************************************************)
\* Variant: every escaped character is taken literally.
parse_escape_PassThrough(pos, c) == Ok(AST_Char(c))

parse_escape(pos, c) ==
    IF c \in Escapable THEN Ok(AST_Char(c)) ELSE Err(InvalidEscape(pos, c))

(***************************************************************************)
(* enum PSQ (lines 64-68) and parse_plus_start_question (lines 70-86):     *)
(* the new value of seq and the Result.                                    *)
(***************************************************************************)
PSQ_Plus == "Plus"
PSQ_Star == "Star"
PSQ_Question == "Question"

\* Variant: a quantifier with nothing before it is skipped.
parse_plus_start_question_Skip(s, ast_type, pos) ==
    IF Len(s) > 0
    THEN LET prev == s[Len(s)]
             popped == SubSeq(s, 1, Len(s) - 1)
             ast == CASE ast_type = PSQ_Plus -> AST_Plus(prev)
                      [] ast_type = PSQ_Star -> AST_Star(prev)
                      [] ast_type = PSQ_Question -> AST_Question(prev)
         IN [seq |-> Append(popped, ast), res |-> Ok(<<>>)]
    ELSE [seq |-> s, res |-> Ok(<<>>)]

\* Variant: a quantifier on a quantified node is refused.
parse_plus_start_question_NoNesting(s, ast_type, pos) ==
    IF Len(s) > 0 /\ s[Len(s)][1] \notin {"Plus", "Star", "Question"}
    THEN LET prev == s[Len(s)]
             popped == SubSeq(s, 1, Len(s) - 1)
             ast == CASE ast_type = PSQ_Plus -> AST_Plus(prev)
                      [] ast_type = PSQ_Star -> AST_Star(prev)
                      [] ast_type = PSQ_Question -> AST_Question(prev)
         IN [seq |-> Append(popped, ast), res |-> Ok(<<>>)]
    ELSE [seq |-> s, res |-> Err(NoPrev(pos))]

parse_plus_start_question(s, ast_type, pos) ==
    IF Len(s) > 0
    THEN LET prev == s[Len(s)]
             popped == SubSeq(s, 1, Len(s) - 1)
             ast == CASE ast_type = PSQ_Plus -> AST_Plus(prev)
                      [] ast_type = PSQ_Star -> AST_Star(prev)
                      [] ast_type = PSQ_Question -> AST_Question(prev)
         IN [seq |-> Append(popped, ast), res |-> Ok(<<>>)]
    ELSE [seq |-> s, res |-> Err(NoPrev(pos))]

(***************************************************************************)
(* fold_or (lines 88-99): pop the last alternative, reverse the rest and   *)
(* wrap, one Or per remaining alternative.                                 *)
(***************************************************************************)
RECURSIVE Reverse(_)
Reverse(s) == IF Len(s) = 0 THEN <<>> ELSE Append(Reverse(Tail(s)), Head(s))

RECURSIVE fold_or_loop(_, _)
fold_or_loop(rest, ast) ==
    IF Len(rest) = 0 THEN ast
    ELSE fold_or_loop(Tail(rest), AST_Or(Head(rest), ast))

\* Variant: line 91 is missing.
fold_or_NoReverse(s) ==
    IF Len(s) > 1
    THEN Some(fold_or_loop(SubSeq(s, 1, Len(s) - 1), s[Len(s)]))
    ELSE IF Len(s) = 1 THEN Some(s[1]) ELSE None

fold_or(s) ==
    IF Len(s) > 1
    THEN Some(fold_or_loop(Reverse(SubSeq(s, 1, Len(s) - 1)), s[Len(s)]))
    ELSE IF Len(s) = 1 THEN Some(s[1]) ELSE None

(***************************************************************************)
(* The locals of parse (lines 108-111) and its outcome.                    *)
(***************************************************************************)
VARIABLES expr, state, seq, seq_or, stack, result

vars == <<expr, state, seq, seq_or, stack, result>>

ParseState_Char == "Char"
ParseState_Escape == "Escape"

Locals(m, s, so, stk, r) ==
    [state |-> m, seq |-> s, seq_or |-> so, stack |-> stk, result |-> r]

\* Lines 108-111.
Fresh == Locals(ParseState_Char, <<>>, <<>>, <<>>, Running)

Cur == Locals(state, seq, seq_or, stack, result)

(***************************************************************************)
(* The arms of the loop body (lines 114-168), each as the locals after the *)
(* arm; an arm that returns sets result and leaves the other locals.       *)
(***************************************************************************)
PSQOf(c) == CASE c = "+" -> PSQ_Plus [] c = "*" -> PSQ_Star [] c = "?" -> PSQ_Question

\* Lines 117-131.
QuantifierArm(st, i, c) ==
    LET r == parse_plus_start_question(st.seq, PSQOf(c), i)
    IN IF IsOk(r.res) THEN [st EXCEPT !.seq = r.seq]
       ELSE [st EXCEPT !.seq = r.seq, !.result = r.res]

\* Variant: the pair is saved after it has been emptied.
LParenArm_SaveAfterReset(st) ==
    [st EXCEPT !.seq = <<>>, !.seq_or = <<>>,
               !.stack = Append(st.stack, << <<>>, <<>> >>)]

\* Lines 132-136.
LParenArm(st) ==
    [st EXCEPT !.seq = <<>>, !.seq_or = <<>>,
               !.stack = Append(st.stack, <<st.seq, st.seq_or>>)]

\* Variant: the test of line 139 is missing.
RParenArm_PushEmpty(st, i) ==
    IF Len(st.stack) > 0
    THEN LET top == st.stack[Len(st.stack)]
             folded == fold_or(Append(st.seq_or, AST_Seq(st.seq)))
         IN [st EXCEPT !.seq = IF IsSome(folded) THEN Append(top[1], folded[2])
                                ELSE top[1],
                       !.seq_or = top[2],
                       !.stack = SubSeq(st.stack, 1, Len(st.stack) - 1)]
    ELSE [st EXCEPT !.result = Err(InvalidRightParen(i))]

\* Variant: a ')' that closes nothing is skipped.
RParenArm_SkipUnmatched(st, i) ==
    IF Len(st.stack) > 0
    THEN LET top == st.stack[Len(st.stack)]
             pushed == IF Len(st.seq) > 0
                       THEN Append(st.seq_or, AST_Seq(st.seq))
                       ELSE st.seq_or
             folded == fold_or(pushed)
         IN [st EXCEPT !.seq = IF IsSome(folded) THEN Append(top[1], folded[2])
                                ELSE top[1],
                       !.seq_or = top[2],
                       !.stack = SubSeq(st.stack, 1, Len(st.stack) - 1)]
    ELSE st

\* Variant: the atoms of the group are appended one by one.
RParenArm_Splice(st, i) ==
    IF Len(st.stack) > 0
    THEN LET top == st.stack[Len(st.stack)]
             folded == fold_or(st.seq_or)
         IN [st EXCEPT !.seq = IF IsSome(folded)
                                THEN Append(top[1], folded[2]) \o st.seq
                                ELSE top[1] \o st.seq,
                       !.seq_or = top[2],
                       !.stack = SubSeq(st.stack, 1, Len(st.stack) - 1)]
    ELSE [st EXCEPT !.result = Err(InvalidRightParen(i))]

\* Variant: line 146 is missing, seq_or stays the one of the group.
RParenArm_KeepSeqOr(st, i) ==
    IF Len(st.stack) > 0
    THEN LET top == st.stack[Len(st.stack)]
             pushed == IF Len(st.seq) > 0
                       THEN Append(st.seq_or, AST_Seq(st.seq))
                       ELSE st.seq_or
             folded == fold_or(pushed)
         IN [st EXCEPT !.seq = IF IsSome(folded) THEN Append(top[1], folded[2])
                                ELSE top[1],
                       !.seq_or = pushed,
                       !.stack = SubSeq(st.stack, 1, Len(st.stack) - 1)]
    ELSE [st EXCEPT !.result = Err(InvalidRightParen(i))]

\* Lines 137-150.
RParenArm(st, i) ==
    IF Len(st.stack) > 0
    THEN LET top == st.stack[Len(st.stack)]
             prev == top[1]
             prev_or == top[2]
             pushed == IF Len(st.seq) > 0
                       THEN Append(st.seq_or, AST_Seq(st.seq))
                       ELSE st.seq_or
             folded == fold_or(pushed)
         IN [st EXCEPT !.seq = IF IsSome(folded) THEN Append(prev, folded[2])
                                ELSE prev,
                       !.seq_or = prev_or,
                       !.stack = SubSeq(st.stack, 1, Len(st.stack) - 1)]
    ELSE [st EXCEPT !.result = Err(InvalidRightParen(i))]

\* Variant: the test of line 152 is missing.
BarArm_NoCheck(st, i) ==
    [st EXCEPT !.seq = <<>>, !.seq_or = Append(st.seq_or, AST_Seq(st.seq))]

\* Variant: the bar takes the last atom only as its left operand.
BarArm_LastAtom(st, i) ==
    IF Len(st.seq) = 0
    THEN [st EXCEPT !.result = Err(NoPrev(i))]
    ELSE [st EXCEPT !.seq = <<>>,
                    !.seq_or = Append(st.seq_or, AST_Seq(<<st.seq[Len(st.seq)]>>))]

\* Lines 151-158.
BarArm(st, i) ==
    IF Len(st.seq) = 0
    THEN [st EXCEPT !.result = Err(NoPrev(i))]
    ELSE [st EXCEPT !.seq = <<>>, !.seq_or = Append(st.seq_or, AST_Seq(st.seq))]

\* Line 159.
BackslashArm(st) == [st EXCEPT !.state = ParseState_Escape]

\* Variant: the character is put in front.
LiteralArm_Prepend(st, c) == [st EXCEPT !.seq = <<AST_Char(c)>> \o st.seq]

\* Line 160.
LiteralArm(st, c) == [st EXCEPT !.seq = Append(st.seq, AST_Char(c))]

\* Variant: the error carries the index of the backslash.
EscapeArm_BackslashIndex(st, i, c) ==
    LET r == parse_escape(i - 1, c)
    IN IF IsOk(r)
       THEN [st EXCEPT !.seq = Append(st.seq, r[2]), !.state = ParseState_Char]
       ELSE [st EXCEPT !.result = r]

\* Lines 163-167.
EscapeArm(st, i, c) ==
    LET r == parse_escape(i, c)
    IN IF IsOk(r)
       THEN [st EXCEPT !.seq = Append(st.seq, r[2]), !.state = ParseState_Char]
       ELSE [st EXCEPT !.result = r]

\* Lines 114-168: one iteration of the loop on character c at index i.
LoopBody(st, i, c) ==
    IF st.state = ParseState_Char
    THEN CASE c \in {"+", "*", "?"} -> QuantifierArm(st, i, c)
           [] c = "(" -> LParenArm(st)
           [] c = ")" -> RParenArm(st, i)
           [] c = "|" -> BarArm(st, i)
           [] c = "\\" -> BackslashArm(st)
           [] OTHER -> LiteralArm(st, c)
    ELSE EscapeArm(st, i, c)

\* Variant: the emptiness check comes before the check of the stack.
Finalize_EmptyFirst(st) ==
    LET pushed == IF Len(st.seq) > 0
                  THEN Append(st.seq_or, AST_Seq(st.seq))
                  ELSE st.seq_or
        folded == fold_or(pushed)
    IN IF ~IsSome(folded) THEN [st EXCEPT !.result = Err(Empty)]
       ELSE IF Len(st.stack) > 0 THEN [st EXCEPT !.result = Err(NoRightParen)]
       ELSE [st EXCEPT !.seq = <<>>, !.seq_or = pushed,
                       !.result = Ok(folded[2])]

\* Variant: with a group open, nothing is returned.
Finalize_WaitsForParen(st) ==
    IF Len(st.stack) > 0
    THEN st
    ELSE LET pushed == IF Len(st.seq) > 0
                       THEN Append(st.seq_or, AST_Seq(st.seq))
                       ELSE st.seq_or
             folded == fold_or(pushed)
         IN [st EXCEPT !.seq = <<>>, !.seq_or = pushed,
                       !.result = IF IsSome(folded) THEN Ok(folded[2])
                                  ELSE Err(Empty)]

\* Variant: a backslash at the end of the input stands for itself.
Finalize_LiteralBackslash(st) ==
    IF Len(st.stack) > 0
    THEN [st EXCEPT !.result = Err(NoRightParen)]
    ELSE LET last == IF st.state = ParseState_Escape
                     THEN Append(st.seq, AST_Char("\\"))
                     ELSE st.seq
             pushed == IF Len(last) > 0
                       THEN Append(st.seq_or, AST_Seq(last))
                       ELSE st.seq_or
             folded == fold_or(pushed)
         IN [st EXCEPT !.seq = <<>>, !.seq_or = pushed,
                       !.result = IF IsSome(folded) THEN Ok(folded[2])
                                  ELSE Err(Empty)]

\* Variant: the test of line 175 is missing.
Finalize_PushAlways(st) ==
    IF Len(st.stack) > 0
    THEN [st EXCEPT !.result = Err(NoRightParen)]
    ELSE LET pushed == Append(st.seq_or, AST_Seq(st.seq))
             folded == fold_or(pushed)
         IN [st EXCEPT !.seq = <<>>, !.seq_or = pushed,
                       !.result = IF IsSome(folded) THEN Ok(folded[2])
                                  ELSE Err(Empty)]

\* Lines 171-183: after the loop.  Line 176 moves seq into the Seq node it pushes
\* on seq_or, and seq_or is then what line 179 hands to fold_or.
Finalize(st) ==
    IF Len(st.stack) > 0
    THEN [st EXCEPT !.result = Err(NoRightParen)]
    ELSE LET pushed == IF Len(st.seq) > 0
                       THEN Append(st.seq_or, AST_Seq(st.seq))
                       ELSE st.seq_or
             folded == fold_or(pushed)
         IN [st EXCEPT !.seq = <<>>, !.seq_or = pushed,
                       !.result = IF IsSome(folded) THEN Ok(folded[2])
                                  ELSE Err(Empty)]

(***************************************************************************)
(* parse (lines 102-184) as a function of the whole input: the loop runs   *)
(* until an arm returns or the input ends.                                 *)
(***************************************************************************)
RECURSIVE Scan(_, _, _)
Scan(st, s, i) ==
    IF ~IsRunning(st.result) \/ i >= Len(s) THEN st
    ELSE Scan(LoopBody(st, i, s[i + 1]), s, i + 1)

parse(s) ==
    LET st == Scan(Fresh, s, 0)
    IN IF IsRunning(st.result) THEN Finalize(st).result ELSE st.result

(***************************************************************************)
(* The state machine: one action per arm.                                  *)
(***************************************************************************)
\* Variant: seq is kept from one call to the next.
Init_Leftover ==
    /\ expr = <<>>
    /\ state = Fresh.state
    /\ seq \in {Fresh.seq, <<AST_Char("a")>>}
    /\ seq_or = Fresh.seq_or
    /\ stack = Fresh.stack
    /\ result = Fresh.result

Init ==
    /\ expr = <<>>
    /\ state = Fresh.state
    /\ seq = Fresh.seq
    /\ seq_or = Fresh.seq_or
    /\ stack = Fresh.stack
    /\ result = Fresh.result

Becomes(st) ==
    /\ state' = st.state
    /\ seq' = st.seq
    /\ seq_or' = st.seq_or
    /\ stack' = st.stack
    /\ result' = st.result

\* The iterator of line 113 yields character c.
Reads(c) ==
    /\ IsRunning(result)
    /\ Len(expr) < MaxLen
    /\ expr' = Append(expr, c)

ReadQuantifier ==
    \E c \in {"+", "*", "?"} :
        /\ state = ParseState_Char
        /\ Reads(c)
        /\ Becomes(QuantifierArm(Cur, Len(expr), c))

ReadLParen ==
    /\ state = ParseState_Char
    /\ Reads("(")
    /\ Becomes(LParenArm(Cur))

ReadRParen ==
    /\ state = ParseState_Char
    /\ Reads(")")
    /\ Becomes(RParenArm(Cur, Len(expr)))

ReadBar ==
    /\ state = ParseState_Char
    /\ Reads("|")
    /\ Becomes(BarArm(Cur, Len(expr)))

ReadBackslash ==
    /\ state = ParseState_Char
    /\ Reads("\\")
    /\ Becomes(BackslashArm(Cur))

ReadLiteral ==
    \E c \in Literals :
        /\ state = ParseState_Char
        /\ Reads(c)
        /\ Becomes(LiteralArm(Cur, c))

ReadEscaped ==
    \E c \in Alphabet :
        /\ state = ParseState_Escape
        /\ Reads(c)
        /\ Becomes(EscapeArm(Cur, Len(expr), c))

\* The iterator is exhausted: lines 171-183.
EndOfInput ==
    /\ IsRunning(result)
    /\ expr' = expr
    /\ Becomes(Finalize(Cur))

Next ==
    \/ ReadQuantifier
    \/ ReadLParen
    \/ ReadRParen
    \/ ReadBar
    \/ ReadBackslash
    \/ ReadLiteral
    \/ ReadEscaped
    \/ EndOfInput

Spec == Init /\ [][Next]_vars

\* parse runs on its caller's thread with nothing to wait for: while it has not
\* returned, its next step is taken.
FairSpec == Spec /\ WF_vars(Next)

(***************************************************************************)
(* Vocabulary of the properties.                                           *)
(***************************************************************************)
Done == ~IsRunning(result)

\* A step of the loop: one more character has been delivered.
ReadStep == IsRunning(result) /\ Len(expr') = Len(expr) + 1

\* The character a ReadStep reads and its zero-based index.
ReadChar == expr'[Len(expr')]
ReadIndex == Len(expr)

\* The step after the loop.
EndStep == IsRunning(result) /\ ~IsRunning(result') /\ expr' = expr

\* One Char node per character, in order.
RECURSIVE CharNodes(_)
CharNodes(s) ==
    IF Len(s) = 0 THEN <<>> ELSE <<AST_Char(Head(s))>> \o CharNodes(Tail(s))

AllLiteral(s) ==
    \A k \in 1..Len(s) : s[k] \notin {"\\", "(", ")", "|", "+", "*", "?"}

(***************************************************************************)
(* C1: the pattern "()" parses successfully (to an AST, not to a           *)
(* ParseError, and in particular not to Empty).                            *)
(* The code returns Empty on it: the ')' folds nothing into the enclosing  *)
(* seq, and the check of lines 179-183 then finds nothing to return.       *)
(***************************************************************************)
C1_EmptyGroupParses == (expr = <<"(", ")">> /\ Done) => IsOk(result)

\* C1 as amended: the ')' of "()" raises no error, so the scan of "()" runs to
\* the end of the input, where parse returns Empty.
C1_EmptyGroupIsEmpty ==
    expr = <<"(", ")">> =>
        /\ Len(seq) = 0 /\ Len(seq_or) = 0 /\ Len(stack) = 0
        /\ IsRunning(result) \/ result = Err(Empty)

C1_Witness == expr = <<"(", ")">> /\ result = Err(Empty)

(***************************************************************************)
(* C3: an input made only of literal characters parses to Ok(Seq) with one *)
(* Char node per character, in input order.                                *)
(* The empty input is such an input and parses to Empty.                   *)
(***************************************************************************)
C3_LiteralsParseToSeq ==
    (AllLiteral(expr) /\ Done) => result = Ok(AST_Seq(CharNodes(expr)))

\* C3 as amended: the same for every non-empty input made only of literals.
C3_NonEmptyLiteralsParseToSeq ==
    (AllLiteral(expr) /\ Len(expr) >= 1 /\ Done) =>
        result = Ok(AST_Seq(CharNodes(expr)))

C3_Witness ==
    /\ expr = <<"a", "b", "b">>
    /\ result = Ok(AST_Seq(<<AST_Char("a"), AST_Char("b"), AST_Char("b")>>))

(***************************************************************************)
(* C2: alternatives b0|b1|...|bn fold to Or(b0, Or(b1, ... Or(b(n-1), bn)))*)
(* at top level and inside a group, in input order, the last alternative   *)
(* innermost; fold_or returns the element of a one-element list unwrapped  *)
(* and nothing for the empty list.                                         *)
(***************************************************************************)
\* The alternatives of s: the stretches of characters between the bars.
RECURSIVE SplitBar(_)
SplitBar(s) ==
    IF Len(s) = 0 THEN << <<>> >>
    ELSE LET r == SplitBar(Tail(s))
         IN IF Head(s) = "|" THEN << <<>> >> \o r
            ELSE << <<Head(s)>> \o r[1] >> \o Tail(r)

\* Literals and bars only, two alternatives or more, none of them empty.
IsAltPattern(s) ==
    /\ \A k \in 1..Len(s) : s[k] \notin {"\\", "(", ")", "+", "*", "?"}
    /\ Len(SplitBar(s)) >= 2
    /\ \A k \in 1..Len(SplitBar(s)) : Len(SplitBar(s)[k]) >= 1

RECURSIVE SeqNodes(_)
SeqNodes(alts) ==
    IF Len(alts) = 0 THEN <<>>
    ELSE <<AST_Seq(CharNodes(Head(alts)))>> \o SeqNodes(Tail(alts))

\* Or(b0, Or(b1, ... bn)) of a non-empty list of branches.
RECURSIVE RightNest(_)
RightNest(b) ==
    IF Len(b) = 1 THEN b[1] ELSE AST_Or(b[1], RightNest(Tail(b)))

C2_FoldOrRightNested ==
    /\ (IsAltPattern(expr) /\ Done) =>
           result = Ok(RightNest(SeqNodes(SplitBar(expr))))
    /\ IsAltPattern(expr) =>
           parse(<<"(">> \o expr \o <<")">>)
               = Ok(AST_Seq(<<RightNest(SeqNodes(SplitBar(expr)))>>))
    /\ Len(seq_or) >= 2 => fold_or(seq_or) = Some(RightNest(seq_or))
    /\ Len(seq_or) = 1 => fold_or(seq_or) = Some(seq_or[1])
    /\ Len(seq_or) = 0 => fold_or(seq_or) = None

C2_Witness ==
    /\ expr = <<"a", "|", "b", "|", "a">>
    /\ result = Ok(AST_Or(AST_Seq(<<AST_Char("a")>>),
                          AST_Or(AST_Seq(<<AST_Char("b")>>),
                                 AST_Seq(<<AST_Char("a")>>))))

(***************************************************************************)
(* C4: a per-character error (InvalidRightParen, NoPrev, InvalidEscape) is *)
(* raised at the first offending character, its position is the index of   *)
(* that character, and whatever follows the character does not change the  *)
(* outcome.                                                                *)
(***************************************************************************)
PerCharError(r) ==
    IsErr(r) /\ r[2][1] \in {"InvalidRightParen", "NoPrev", "InvalidEscape"}

ErrPos(r) == r[2][2]

\* What may follow the offending character.
Tails ==
    {<<>>} \cup {<<c>> : c \in Alphabet}
           \cup {<<")", ")">>, <<"(", "(">>, <<"\\", "a">>, <<"|", "|">>}

C4_FirstErrorStopsScan ==
    PerCharError(result) =>
        /\ Len(expr) >= 1
        /\ ErrPos(result) = Len(expr) - 1
        /\ \A k \in 0..(Len(expr) - 1) :
               IsRunning(Scan(Fresh, SubSeq(expr, 1, k), 0).result)
        /\ \A t \in Tails : parse(expr \o t) = result

C4_Witness ==
    /\ expr = <<"a", "\\", "b">>
    /\ result = Err(InvalidEscape(2, "b"))

(***************************************************************************)
(* C5: the checks at the end of the input run only when no character       *)
(* raised an error, and in this order: an open group gives NoRightParen    *)
(* (even when no atom was read); otherwise empty seq and seq_or give       *)
(* Empty; otherwise the outcome is Ok.  Empty is never returned while a    *)
(* group is open.                                                          *)
(***************************************************************************)
EndOutcome(r) == IsOk(r) \/ ErrIs(r, "Empty") \/ ErrIs(r, "NoRightParen")

C5_EndOfInputChecks ==
    /\ [](ErrIs(result, "Empty") => Len(stack) = 0)
    /\ [][(EndOutcome(result') /\ result' # result) =>
            /\ IsRunning(result)
            /\ expr' = expr
            /\ Len(stack) > 0 => result' = Err(NoRightParen)
            /\ (Len(stack) = 0 /\ Len(seq) = 0 /\ Len(seq_or) = 0) =>
                   result' = Err(Empty)
            /\ (Len(stack) = 0 /\ (Len(seq) > 0 \/ Len(seq_or) > 0)) =>
                   IsOk(result')]_vars

C5_Witness == expr = <<"(">> /\ result = Err(NoRightParen)

(***************************************************************************)
(* C6: in Plain mode a quantifier or a bar read at index i while seq is    *)
(* empty fails with NoPrev(i) and leaves seq empty; seq is empty at the    *)
(* start of the input, right after '(' and right after '|'.                *)
(***************************************************************************)
C6_NoPrevOnEmptySeq ==
    /\ [](Len(expr) = 0 => Len(seq) = 0)
    /\ [][(ReadStep /\ state = "Char" /\ ReadChar \in {"+", "*", "?", "|"}
                    /\ Len(seq) = 0) =>
            (result' = Err(NoPrev(ReadIndex)) /\ seq' = seq)]_vars
    /\ [][(ReadStep /\ state = "Char" /\ ReadChar \in {"(", "|"}
                    /\ IsRunning(result')) =>
            Len(seq') = 0]_vars

C6_Witness == expr = <<"a", "|", "?">> /\ result = Err(NoPrev(2))

(***************************************************************************)
(* C7: in Escape mode, one of \ ( ) | + * ? is appended to seq as a Char,  *)
(* the mode returns to Plain and seq_or and the stack are untouched; any   *)
(* other character c at index i fails with InvalidEscape(i, c), i being    *)
(* the index of c, not of the backslash.                                   *)
(***************************************************************************)
C7_EscapeMode ==
    [][(ReadStep /\ state = "Escape") =>
        IF ReadChar \in {"\\", "(", ")", "|", "+", "*", "?"}
        THEN /\ seq' = Append(seq, AST_Char(ReadChar))
             /\ state' = "Char"
             /\ seq_or' = seq_or
             /\ stack' = stack
             /\ IsRunning(result')
        ELSE result' = Err(InvalidEscape(ReadIndex, ReadChar))]_vars

C7_Witness ==
    /\ expr = <<"\\", "(">>
    /\ seq = <<AST_Char("(")>>
    /\ Len(stack) = 0
    /\ state = "Char"

(***************************************************************************)
(* C8: a ')' read in Plain mode at index i with an empty stack fails with  *)
(* InvalidRightParen(i) and ends the parse; with a non-empty stack it      *)
(* raises no error.  A scan that finishes with a group still open fails    *)
(* with NoRightParen.                                                      *)
(***************************************************************************)
C8_RightParen ==
    /\ [][~ErrIs(result, "InvalidRightParen")]_vars
    /\ [][(ReadStep /\ state = "Char" /\ ReadChar = ")") =>
            IF Len(stack) = 0
            THEN result' = Err(InvalidRightParen(ReadIndex))
            ELSE IsRunning(result')]_vars
    /\ [][(EndStep /\ Len(stack) > 0) => result' = Err(NoRightParen)]_vars

C8_Witness ==
    /\ expr = <<"(", ")", ")">>
    /\ result = Err(InvalidRightParen(2))

(***************************************************************************)
(* C9: no Seq node of a returned AST, at any depth, has zero children, and *)
(* every element held in seq_or during the scan is a non-empty Seq.        *)
(***************************************************************************)
RECURSIVE NoEmptySeq(_)
NoEmptySeq(ast) ==
    CASE ast[1] = "Char" -> TRUE
      [] ast[1] \in {"Plus", "Star", "Question"} -> NoEmptySeq(ast[2])
      [] ast[1] = "Or" -> NoEmptySeq(ast[2]) /\ NoEmptySeq(ast[3])
      [] ast[1] = "Seq" ->
            /\ Len(ast[2]) >= 1
            /\ \A k \in 1..Len(ast[2]) : NoEmptySeq(ast[2][k])

NonEmptySeqs(branches) ==
    \A k \in 1..Len(branches) :
        /\ branches[k][1] = "Seq"
        /\ NoEmptySeq(branches[k])

C9_NoEmptySeq ==
    /\ IsOk(result) => NoEmptySeq(result[2])
    /\ NonEmptySeqs(seq_or)
    /\ \A k \in 1..Len(seq) : NoEmptySeq(seq[k])
    /\ \A f \in 1..Len(stack) :
           /\ NonEmptySeqs(stack[f][2])
           /\ \A k \in 1..Len(stack[f][1]) : NoEmptySeq(stack[f][1][k])

C9_Witness ==
    /\ expr = <<"(", "a", "|", "b", ")">>
    /\ IsOk(result)
    /\ Len(seq_or) = 1

(***************************************************************************)
(* C10: an empty group changes nothing in the enclosing scope: after "()"  *)
(* read in Plain mode, seq, seq_or and the stack are what they were before *)
(* the '(', so the input parses as it does without the "()" and a          *)
(* quantifier after it applies to the atom before it.                      *)
(***************************************************************************)
\* The character at one-based position k of s is read in Plain mode.
PlainAt(s, k) ==
    LET st == Scan(Fresh, SubSeq(s, 1, k - 1), 0)
    IN IsRunning(st.result) /\ st.state = "Char"

Without(s, k) == SubSeq(s, 1, k - 1) \o SubSeq(s, k + 2, Len(s))

C10_EmptyGroupIsNoOp ==
    /\ [](\A k \in 1..(Len(expr) - 1) :
            (expr[k] = "(" /\ expr[k + 1] = ")" /\ PlainAt(expr, k)) =>
                /\ IsRunning(result) => Cur = Scan(Fresh, Without(expr, k), 0)
                /\ IsOk(result) => result = parse(Without(expr, k)))
    /\ [][(ReadStep /\ state = "Char" /\ ReadChar = "(") =>
            /\ stack' = Append(stack, <<seq, seq_or>>)
            /\ Len(seq') = 0
            /\ Len(seq_or') = 0]_vars
    /\ [][(/\ ReadStep /\ state = "Char" /\ ReadChar = ")"
           /\ Len(expr) >= 1 /\ expr[Len(expr)] = "("
           /\ Len(seq) = 0 /\ Len(seq_or) = 0 /\ Len(stack) > 0) =>
            /\ seq' = stack[Len(stack)][1]
            /\ seq_or' = stack[Len(stack)][2]
            /\ stack' = SubSeq(stack, 1, Len(stack) - 1)
            /\ state' = "Char"
            /\ IsRunning(result')]_vars

C10_Witness ==
    /\ expr = <<"a", "(", ")", "+">>
    /\ result = Ok(AST_Seq(<<AST_Plus(AST_Char("a"))>>))

(***************************************************************************)
(* C11: on its ')' a non-empty group becomes exactly one element of the    *)
(* enclosing seq, the fold of its alternatives, and a quantifier read      *)
(* right after the ')' wraps that whole element, not the last atom inside  *)
(* the group.                                                              *)
(***************************************************************************)
\* The quantifier node character q makes of x.
Quantified(q, x) ==
    CASE q = "+" -> AST_Plus(x)
      [] q = "*" -> AST_Star(x)
      [] q = "?" -> AST_Question(x)

\* The alternatives a ')' or the end of the input folds.
Branches == IF Len(seq) > 0 THEN Append(seq_or, AST_Seq(seq)) ELSE seq_or

\* s is "(" u ")" q, u a non-empty run of literals and q a quantifier.
IsQuantifiedGroup(s) ==
    /\ Len(s) >= 4
    /\ s[1] = "("
    /\ s[Len(s) - 1] = ")"
    /\ s[Len(s)] \in {"+", "*", "?"}
    /\ AllLiteral(SubSeq(s, 2, Len(s) - 2))

C11_GroupIsOneAtom ==
    /\ []((IsQuantifiedGroup(expr) /\ Done) =>
            result = Ok(AST_Seq(<<Quantified(expr[Len(expr)],
                          AST_Seq(CharNodes(SubSeq(expr, 2, Len(expr) - 2))))>>)))
    /\ [][(/\ ReadStep /\ state = "Char" /\ ReadChar = ")"
           /\ Len(stack) > 0 /\ Len(Branches) > 0) =>
            /\ seq' = Append(stack[Len(stack)][1], RightNest(Branches))
            /\ IsRunning(result')]_vars

C11_Witness ==
    /\ expr = <<"(", "a", "b", ")", "+">>
    /\ result = Ok(AST_Seq(<<AST_Plus(AST_Seq(<<AST_Char("a"), AST_Char("b")>>))>>))

(***************************************************************************)
(* C12: a quantifier read in Plain mode with a non-empty seq replaces the  *)
(* last element x of seq by Plus(x), Star(x) or Question(x) and changes    *)
(* nothing else; consecutive quantifiers nest, the earliest innermost, and *)
(* are never refused.                                                      *)
(***************************************************************************)
C12_QuantifierWrapsLast ==
    /\ []((Len(expr) = 3 /\ AllLiteral(<<expr[1]>>) /\ IsRunning(result)
              /\ expr[2] \in {"+", "*", "?"} /\ expr[3] \in {"+", "*", "?"}) =>
            seq = <<Quantified(expr[3], Quantified(expr[2], AST_Char(expr[1])))>>)
    /\ [][(ReadStep /\ state = "Char" /\ ReadChar \in {"+", "*", "?"}
                    /\ Len(seq) > 0) =>
            /\ seq' = Append(SubSeq(seq, 1, Len(seq) - 1),
                             Quantified(ReadChar, seq[Len(seq)]))
            /\ seq_or' = seq_or
            /\ stack' = stack
            /\ state' = "Char"
            /\ IsRunning(result')]_vars

C12_Witness ==
    /\ expr = <<"b", "a", "*", "*">>
    /\ seq = <<AST_Char("b"), AST_Star(AST_Star(AST_Char("a")))>>

(***************************************************************************)
(* C13: the Display text of ParseError::Empty is the Display text of       *)
(* ParseError::InvalidRightParen.                                          *)
(* The text of Empty (line 46) is the text of NoRightParen (line 43); the  *)
(* text of InvalidRightParen (line 37) is another one and carries the      *)
(* position.                                                               *)
(***************************************************************************)
C13_EmptyTextIsInvalidRightParenText ==
    ErrIs(result, "Empty") =>
        \E pos \in 0..MaxLen : Display(result[2]) = Display(InvalidRightParen(pos))

\* C13 as amended: the Display text of Empty is the Display text of
\* NoRightParen, "ParseError: no right parenthesis", and differs from the text
\* of every InvalidRightParen.
C13_EmptyTextIsNoRightParenText ==
    /\ ErrIs(result, "Empty") =>
           /\ Display(result[2]) = Display(NoRightParen)
           /\ Display(result[2]) = <<"ParseError: no right parenthesis">>
    /\ ErrIs(result, "InvalidRightParen") =>
           /\ Display(result[2]) # Display(Empty)
           /\ Display(result[2])
                  = <<"ParseError: invalid right parenthesis: pos = ", Len(expr) - 1>>

C13_Witness ==
    /\ expr = <<>>
    /\ result = Err(Empty)
    /\ Display(result[2]) = Display(NoRightParen)

RECURSIVE EscapedAt(_, _)
EscapedAt(s, k) == k > 1 /\ s[k - 1] = "\\" /\ ~EscapedAt(s, k - 1)

Unescaped(s, c) ==
    Cardinality({k \in 1..Len(s) : s[k] = c /\ ~EscapedAt(s, k)})

Depth(s) == Unescaped(s, "(") - Unescaped(s, ")")

\* Where the '(' of entry d of the stack stands in s: the last unescaped '('
\* read at depth d - 1.
OpenPos(s, d) ==
    CHOOSE k \in 1..Len(s) :
        /\ s[k] = "(" /\ ~EscapedAt(s, k) /\ Depth(SubSeq(s, 1, k - 1)) = d - 1
        /\ \A j \in (k + 1)..Len(s) :
               ~(s[j] = "(" /\ ~EscapedAt(s, j) /\ Depth(SubSeq(s, 1, j - 1)) = d - 1)

C15_StackDepth ==
    /\ [](~PerCharError(result) =>
            /\ Len(stack) = Depth(expr)
            /\ Depth(expr) >= 0
            /\ \A d \in 1..Len(stack) :
                   LET st == Scan(Fresh, SubSeq(expr, 1, OpenPos(expr, d) - 1), 0)
                   IN stack[d] = <<st.seq, st.seq_or>>)
    /\ [][(ReadStep /\ IsRunning(result')) =>
            IF state = "Char" /\ ReadChar = "("
            THEN stack' = Append(stack, <<seq, seq_or>>)
            ELSE IF state = "Char" /\ ReadChar = ")"
            THEN Len(stack) > 0 /\ stack' = SubSeq(stack, 1, Len(stack) - 1)
            ELSE stack' = stack]_vars

C15_Witness ==
    /\ expr = <<"a", "(", "\\", "(", "(">>
    /\ IsRunning(result)
    /\ stack = << <<<<AST_Char("a")>>, <<>>>>, <<<<AST_Char("(")>>, <<>>>> >>

(***************************************************************************)
(* C16: a group is isolated from the enclosing scope: '(' saves the        *)
(* current (seq, seq_or) and empties both; after the matching ')' seq_or   *)
(* is exactly the value saved at the '(', whatever bars the group held,    *)
(* and seq is the saved seq with at most one element appended.             *)
(***************************************************************************)
\* s is t or t with one element appended.
AtMostOneAppended(s, t) ==
    \/ s = t
    \/ Len(s) = Len(t) + 1 /\ SubSeq(s, 1, Len(t)) = t

C16_GroupsIsolate ==
    /\ [](\A n \in 1..Len(expr) :
            LET p == SubSeq(expr, 1, n)
                before == Scan(Fresh, SubSeq(p, 1, OpenPos(SubSeq(p, 1, n - 1),
                                                      Depth(p) + 1) - 1), 0)
                after == Scan(Fresh, p, 0)
            IN (p[n] = ")" /\ ~EscapedAt(p, n) /\ IsRunning(after.result)) =>
                   /\ after.seq_or = before.seq_or
                   /\ AtMostOneAppended(after.seq, before.seq)
                   /\ n = Len(expr) /\ IsRunning(result) =>
                          seq_or = before.seq_or
                              /\ AtMostOneAppended(seq, before.seq))
    /\ [][(ReadStep /\ state = "Char" /\ ReadChar = "(") =>
            /\ stack' = Append(stack, <<seq, seq_or>>)
            /\ seq' = <<>>
            /\ seq_or' = <<>>]_vars
    /\ [][(ReadStep /\ state = "Char" /\ ReadChar = ")" /\ Len(stack) > 0) =>
            /\ seq_or' = stack[Len(stack)][2]
            /\ AtMostOneAppended(seq', stack[Len(stack)][1])
            /\ stack' = SubSeq(stack, 1, Len(stack) - 1)]_vars
    /\ [][(ReadStep /\ ~(state = "Char" /\ ReadChar \in {"(", ")"})) =>
            stack' = stack]_vars

C16_Witness ==
    /\ expr = <<"(", "a", "|", "b", ")">>
    /\ IsRunning(result)
    /\ seq_or = <<>>
    /\ seq = <<AST_Or(AST_Seq(<<AST_Char("a")>>), AST_Seq(<<AST_Char("b")>>))>>
    /\ stack = <<>>

(***************************************************************************)
(* C17: concatenation binds tighter than alternation: a '|' read in Plain  *)
(* mode with a non-empty seq moves the whole seq, as one Seq node, to the  *)
(* end of seq_or and empties seq, leaving the stack and the earlier        *)
(* elements of seq_or as they are; so u|v, u and v non-empty runs of       *)
(* literals, parses to Or(Seq(chars of u), Seq(chars of v)).               *)
(***************************************************************************)
C17_BarTakesWholeSeq ==
    /\ []((IsAltPattern(expr) /\ Len(SplitBar(expr)) = 2 /\ Done) =>
            result = Ok(AST_Or(AST_Seq(CharNodes(SplitBar(expr)[1])),
                               AST_Seq(CharNodes(SplitBar(expr)[2])))))
    /\ [][(ReadStep /\ state = "Char" /\ ReadChar = "|" /\ Len(seq) > 0) =>
            /\ seq_or' = Append(seq_or, AST_Seq(seq))
            /\ seq' = <<>>
            /\ stack' = stack
            /\ state' = "Char"
            /\ IsRunning(result')]_vars

C17_Witness ==
    /\ expr = <<"a", "b", "|", "b", "a">>
    /\ result = Ok(AST_Or(AST_Seq(<<AST_Char("a"), AST_Char("b")>>),
                          AST_Seq(<<AST_Char("b"), AST_Char("a")>>)))

(***************************************************************************)
(* C18: on every finite input parse terminates with exactly one outcome:   *)
(* each step of the scan reads one more character, in input order, there   *)
(* are no more such steps than characters, the step at the end of the      *)
(* input always produces an AST or an error, and nothing happens after.    *)
(***************************************************************************)
C18_Terminates ==
    /\ <>Done
    /\ [](Len(expr) <= MaxLen)
    /\ [][IsRunning(result)]_vars
    /\ [][\/ /\ Len(expr') = Len(expr) + 1
             /\ SubSeq(expr', 1, Len(expr)) = expr
          \/ /\ expr' = expr
             /\ IsOk(result') \/ IsErr(result')]_vars

C18_Witness ==
    /\ expr = <<"(", "(", "a", ")", "*">>
    /\ result = Err(NoRightParen)

(***************************************************************************)
(* C19: an input that ends in Escape mode, its last character an unescaped *)
(* backslash, raises no escape error: the backslash is dropped and the     *)
(* outcome is the outcome of the input without it ("a\" gives              *)
(* Seq([Char('a')]), "\" alone gives Empty).                               *)
(***************************************************************************)
C19_DanglingBackslash ==
    /\ []((state = "Escape" /\ ~PerCharError(result)) =>
            /\ Len(expr) >= 1
            /\ expr[Len(expr)] = "\\"
            /\ ~EscapedAt(expr, Len(expr)))
    /\ []((expr = <<"a", "\\">> /\ Done) => result = Ok(AST_Seq(<<AST_Char("a")>>)))
    /\ []((expr = <<"\\">> /\ Done) => result = Err(Empty))
    /\ [][(EndStep /\ state = "Escape") =>
            /\ result' = parse(SubSeq(expr, 1, Len(expr) - 1))
            /\ ~ErrIs(result', "InvalidEscape")]_vars

C19_Witness ==
    /\ expr = <<"a", "|", "b", "\\">>
    /\ state = "Escape"
    /\ result = Ok(AST_Or(AST_Seq(<<AST_Char("a")>>), AST_Seq(<<AST_Char("b")>>)))

(***************************************************************************)
(* C20: only the left operand of '|' must be non-empty: a '|' followed     *)
(* at once by ')' or by the end of the input raises no error and adds no   *)
(* branch ("a|" parses as "a", "(a|)" as "(a)"), while an empty left       *)
(* operand ("|a", "(|a)", "a||b") fails with NoPrev at the index of the    *)
(* '|'.                                                                    *)
(***************************************************************************)
\* s without the character at one-based position k.
WithoutChar(s, k) == SubSeq(s, 1, k - 1) \o SubSeq(s, k + 1, Len(s))

\* The character at position k of s is a '|' read in Plain mode with a
\* non-empty seq.
AcceptedBarAt(s, k) ==
    /\ s[k] = "|"
    /\ PlainAt(s, k)
    /\ Len(Scan(Fresh, SubSeq(s, 1, k - 1), 0).seq) > 0

C20_EmptyRightOperand ==
    /\ \A k \in 1..Len(expr) :
           (AcceptedBarAt(expr, k) /\ k = Len(expr) /\ Done) =>
               result = parse(WithoutChar(expr, k))
    /\ \A k \in 1..(Len(expr) - 1) :
           (AcceptedBarAt(expr, k) /\ expr[k + 1] = ")") =>
               /\ IsRunning(Scan(Fresh, SubSeq(expr, 1, k + 1), 0).result)
                      \/ Len(Scan(Fresh, SubSeq(expr, 1, k), 0).stack) = 0
               /\ IsRunning(result) => Cur = Scan(Fresh, WithoutChar(expr, k), 0)
               /\ IsOk(result) => result = parse(WithoutChar(expr, k))
    /\ (expr = <<"a", "|">> /\ Done) => result = Ok(AST_Seq(<<AST_Char("a")>>))
    /\ (expr = <<"(", "a", "|", ")">> /\ Done) =>
           result = Ok(AST_Seq(<<AST_Seq(<<AST_Char("a")>>)>>))
    /\ expr = <<"|">> =>
           result = Err(NoPrev(0)) /\ parse(<<"|", "a">>) = result
    /\ expr = <<"(", "|">> =>
           result = Err(NoPrev(1)) /\ parse(<<"(", "|", "a", ")">>) = result
    /\ expr = <<"a", "|", "|">> =>
           result = Err(NoPrev(2)) /\ parse(<<"a", "|", "|", "b">>) = result

C20_Witness ==
    /\ expr = <<"(", "a", "|", ")">>
    /\ result = Ok(AST_Seq(<<AST_Seq(<<AST_Char("a")>>)>>))
    /\ result = parse(<<"(", "a", ")">>)

====
